---- MODULE Spec2Model ----
(***************************************************************************)
(* Train-state containers (train/train_states.py) and the training         *)
(* utilities (utils/train_utils.py) of GenCFD.                             *)
(*                                                                         *)
(* Four specifications share the module:                                   *)
(*   Spec       the TrainState / BasicTrainState / DenoisingModelTrainState*)
(*              containers, the model and optimizer they hold, and the     *)
(*              checkpoint files they write and read;                      *)
(*   SpecTrain  the same run with the base class TrainState alone;         *)
(*   SpecUtils  the pure helpers is_scalar and opt_chain;                  *)
(*   SpecRank   a class decorated with primary_process_only, called from   *)
(*              the processes of a multi-process run.                      *)
(***************************************************************************)
EXTENDS Integers, Sequences, FiniteSets, TLC

\* ------------------------------------------------------------------ bounds
MaxStep == 1          \* step counters range over 0..MaxStep
NumDicts == 2         \* distinct state-dictionary contents (params, opt_state)
NumPaths == 1         \* checkpoint paths
MaxNdim == 3          \* arrays and tensors have at most MaxNdim dimensions
MaxDim == 3           \* each of extent 0..MaxDim
MaxLen == 3           \* sequences handed to opt_chain have at most MaxLen elements
NumOptimizers == 2    \* distinct optimizer objects
NumProcs == 2         \* processes of the distributed run (the world size)
MaxCalls == 2         \* times one method body runs in one process

Steps == 0..MaxStep
Dicts == 1..NumDicts
Paths == 1..NumPaths

\* Python's None, where a field or an argument holds a dictionary id otherwise.
None == 0

VARIABLES
  state,       \* the caller's train state (NoState before the first one is built)
  model,       \* the live nn.Module's parameters (its state_dict's contents)
  optimizer,   \* the live optimizer's state (its state_dict's contents)
  files,       \* the checkpoint files: a function from the paths that exist
  ret,         \* the last call on a train state and how it ended
  call,        \* the last call of a utility function and how it ended
  runs,        \* per process and method, how often the method body ran
  lastcall     \* the last method call on the decorated class

vars == <<state, model, optimizer, files, ret, call, runs, lastcall>>

\* ------------------------------------------------------------ step tensors
\* A step value is a Python int (tensor = FALSE) or a 0-d torch.Tensor.
Tensor(v) == [tensor |-> TRUE, val |-> v]
Raw(v) == [tensor |-> FALSE, val |-> v]

\* torch.tensor(x): a new tensor holding x's value (x an int or a tensor).
torch_tensor(x) == [tensor |-> TRUE, val |-> x.val]

\* What a caller may pass as `step`.
StepInputs == {Raw(s) : s \in Steps} \cup {Tensor(s) : s \in Steps}

\* -------------------------------------------------------------- checkpoints
\* A checkpoint is a dictionary: a function from its keys.
\* GetStep with the key misspelt: the default is always taken.
GetStep_wrong_key(checkpoint, default) == default

\* checkpoint.get("step", default) as a step value: the file holds a plain int.
GetStep(checkpoint, default) ==
  IF "step" \in DOMAIN checkpoint THEN Raw(checkpoint["step"]) ELSE default

\* Checkpoints found on disk at start, written by something else than
\* save_checkpoint: an empty dictionary, or weights without a step.
LegacyCheckpoints ==
  {[k \in {} |-> 0]} \cup
  {("params" :> p) @@ ("opt_state" :> s) : p \in Dicts, s \in Dicts}

\* ------------------------------------------------------------ constructors
\* TrainState.__init__: step is wrapped in a tensor either way.
TrainState_init(step) ==
  [cls |-> "TrainState",
   step |-> IF step.tensor THEN Tensor(step.val) ELSE torch_tensor(step),
   params |-> None, params_shared |-> FALSE, opt_state |-> None,
   ema_model |-> None, ema |-> None]

\* BasicTrainState.__init__ with the model m and the optimizer opt. A params
\* argument of None makes the field model.state_dict(), whose tensors share
\* storage with the model's (params_shared); opt_state likewise defaults to
\* optimizer.state_dict(), a dictionary of its own.
BasicTrainState_init(m, opt, params, opt_state, step) ==
  [TrainState_init(step) EXCEPT
     !.cls = "BasicTrainState",
     !.params = params,
     !.params_shared = (params = None),
     !.opt_state = IF opt_state # None THEN opt_state ELSE opt]

\* The params field as read: shared tensors show the model's current values.
params_of(self, m) == IF self.params_shared THEN m ELSE self.params

\* ema_parameters without the guard's raise: None comes back instead.
ema_parameters_no_raise(self) == [status |-> "ok", val |-> self.ema_model]

\* DenoisingModelTrainState.ema_parameters.
ema_parameters(self) ==
  IF self.ema_model # None
    THEN [status |-> "ok", val |-> self.ema_model]
    ELSE [status |-> "ValueError", val |-> None]

\* DenoisingModelTrainState.__init__: AveragedModel deep-copies the model.
DenoisingModelTrainState_init(m, opt, params, opt_state, step) ==
  LET base == [BasicTrainState_init(m, opt, params, opt_state, step) EXCEPT
                 !.cls = "DenoisingModelTrainState", !.ema_model = m]
  IN [base EXCEPT !.ema = ema_parameters(base).val]

Construct(cls, m, opt, params, opt_state, step) ==
  IF cls = "BasicTrainState"
    THEN BasicTrainState_init(m, opt, params, opt_state, step)
    ELSE DenoisingModelTrainState_init(m, opt, params, opt_state, step)

Rich(self) == self.cls \in {"BasicTrainState", "DenoisingModelTrainState"}

\* state_dict saving the container's own fields instead of the live
\* model's and optimizer's dictionaries.
state_dict_fields(self, m, opt) ==
  IF ~self.step.tensor
    THEN [status |-> "AttributeError", val |-> [k \in {} |-> 0]]
    ELSE [status |-> "ok",
          val |-> IF self.cls \in {"BasicTrainState", "DenoisingModelTrainState"}
                    THEN ("step" :> self.step.val)
                           @@ ("params" :> params_of(self, m))
                           @@ ("opt_state" :> self.opt_state)
                    ELSE ("step" :> self.step.val)]

\* ------------------------------------------------------------- state_dict
\* TrainState.state_dict / BasicTrainState.state_dict: self.step.item() needs
\* a tensor; the rich containers add the live model's and optimizer's
\* dictionaries.
state_dict(self, m, opt) ==
  IF ~self.step.tensor
    THEN [status |-> "AttributeError", val |-> [k \in {} |-> 0]]
    ELSE [status |-> "ok",
          val |-> IF Rich(self)
                    THEN ("step" :> self.step.val) @@ ("params" :> m)
                           @@ ("opt_state" :> opt)
                    ELSE ("step" :> self.step.val)]

\* TrainState.int_step.
int_step(self) ==
  IF self.step.tensor
    THEN [status |-> "ok", val |-> self.step.val]
    ELSE [status |-> "AttributeError", val |-> 0]

\* update_from_checkpoint that keeps the step it has.
TrainState_update_keeps_step(self, checkpoint) ==
  [self EXCEPT !.step = torch_tensor(self.step)]

\* ------------------------------------------------- update_from_checkpoint
\* TrainState.update_from_checkpoint.
TrainState_update_from_checkpoint(self, checkpoint) ==
  [self EXCEPT !.step = torch_tensor(GetStep(checkpoint, self.step))]

\* update_from_checkpoint as dispatched on the object's class; the outcome is
\* the object, the model and the optimizer after the call and how it ended. A
\* missing key raises after the assignments before it have taken effect.
update_from_checkpoint(self, checkpoint, m, opt) ==
  LET s1 == TrainState_update_from_checkpoint(self, checkpoint)
  IN IF ~Rich(self)
       THEN [self |-> s1, model |-> m, optimizer |-> opt, status |-> "ok"]
     ELSE IF "params" \notin DOMAIN checkpoint
       THEN [self |-> s1, model |-> m, optimizer |-> opt, status |-> "KeyError"]
     ELSE IF "opt_state" \notin DOMAIN checkpoint
       THEN [self |-> s1, model |-> checkpoint["params"], optimizer |-> opt,
             status |-> "KeyError"]
     ELSE [self |-> s1, model |-> checkpoint["params"],
           optimizer |-> checkpoint["opt_state"], status |-> "ok"]

\* TrainState.restore_from_checkpoint with a ref_state.
restore_into(ref_state, checkpoint, m, opt) ==
  LET r1 == [ref_state EXCEPT !.step = GetStep(checkpoint, ref_state.step)]
  IN update_from_checkpoint(r1, checkpoint, m, opt)

\* restore_from_checkpoint that constructs cls before the checkpoint is loaded
\* into the model: the EMA model is copied from the old weights.
Basic_restore_stale_ema(cls, checkpoint, m, opt) ==
  IF "params" \notin DOMAIN checkpoint \/ "opt_state" \notin DOMAIN checkpoint
    THEN [status |-> "KeyError", model |-> m, optimizer |-> opt,
          self |-> TrainState_init(Raw(0))]
    ELSE [status |-> "ok", model |-> checkpoint["params"],
          optimizer |-> checkpoint["opt_state"],
          self |-> Construct(cls, m, opt, checkpoint["params"],
                             checkpoint["opt_state"],
                             IF "step" \in DOMAIN checkpoint
                               THEN Raw(checkpoint["step"]) ELSE Raw(0))]

\* BasicTrainState.restore_from_checkpoint, as the class cls: the dictionaries
\* are loaded into the model and the optimizer, then cls is constructed.
Basic_restore(cls, checkpoint, m, opt) ==
  IF "params" \notin DOMAIN checkpoint
    THEN [status |-> "KeyError", model |-> m, optimizer |-> opt,
          self |-> TrainState_init(Raw(0))]
  ELSE IF "opt_state" \notin DOMAIN checkpoint
    THEN [status |-> "KeyError", model |-> checkpoint["params"],
          optimizer |-> opt, self |-> TrainState_init(Raw(0))]
  ELSE [status |-> "ok", model |-> checkpoint["params"],
        optimizer |-> checkpoint["opt_state"],
        self |-> Construct(cls, checkpoint["params"], checkpoint["opt_state"],
                           checkpoint["params"], checkpoint["opt_state"],
                           GetStep(checkpoint, Raw(0)))]

\* -------------------------------------------------------------------- Init
\* The outcome of the last call: the operation, how it ended ("ok" or the
\* exception raised), the value returned (int_step, ema_parameters), whether the
\* object returned is the ref_state passed in, and the checkpoint path used.
Ret(op, status, val, is_ref, path) ==
  [op |-> op, status |-> status, val |-> val, is_ref |-> is_ref, path |-> path]

NoState ==
  [cls |-> "none", step |-> Raw(0), params |-> None, params_shared |-> FALSE,
   opt_state |-> None, ema_model |-> None, ema |-> None]

NoCall == [op |-> "none", arg |-> 0, status |-> "ok", val |-> 0]
NoLastCall == [proc |-> 0, method |-> "none", ret |-> "None"]

Others == <<call, runs, lastcall>>

Init ==
  /\ state = NoState
  /\ model \in Dicts
  /\ optimizer \in Dicts
  /\ \E present \in SUBSET Paths : files \in [present -> LegacyCheckpoints]
  /\ ret = Ret("none", "ok", 0, FALSE, 0)
  /\ call = NoCall
  /\ runs = <<>>
  /\ lastcall = NoLastCall

\* ----------------------------------------------------------------- actions
\* state = TrainState(step)
NewTrainState(step) ==
  /\ state' = TrainState_init(step)
  /\ ret' = Ret("__init__", "ok", 0, FALSE, 0)
  /\ UNCHANGED <<model, optimizer, files, Others>>

\* state = BasicTrainState(model, optimizer, params, opt_state, step), or
\* DenoisingModelTrainState(...), on the run's model and optimizer.
NewRichTrainState(cls, params, opt_state, step) ==
  /\ state' = Construct(cls, model, optimizer, params, opt_state, step)
  /\ ret' = Ret("__init__", "ok", 0, FALSE, 0)
  /\ UNCHANGED <<model, optimizer, files, Others>>

\* state.save_checkpoint(ckpt_path)
SaveCheckpoint(path) ==
  /\ state # NoState
  /\ LET sd == state_dict(state, model, optimizer)
     IN /\ files' = IF sd.status = "ok" THEN (path :> sd.val) @@ files ELSE files
        /\ ret' = Ret("save_checkpoint", sd.status, 0, FALSE, path)
  /\ UNCHANGED <<state, model, optimizer, Others>>

\* state = TrainState.restore_from_checkpoint(ckpt_path, ref_state), where
\* ref_state is the caller's state or None. Without a ref_state the
\* checkpoint's keys become TrainState's keyword arguments, of which it takes
\* step only.
RestoreFromCheckpoint(path, with_ref) ==
  /\ with_ref => state # NoState
  /\ IF path \notin DOMAIN files
       THEN /\ ret' = Ret("restore_from_checkpoint", "FileNotFoundError", 0, FALSE, path)
            /\ UNCHANGED <<state, model, optimizer>>
     ELSE IF with_ref
       THEN LET out == restore_into(state, files[path], model, optimizer)
            IN /\ state' = out.self
               /\ model' = out.model
               /\ optimizer' = out.optimizer
               /\ ret' = Ret("restore_from_checkpoint", out.status, 0,
                             out.status = "ok", path)
     ELSE IF DOMAIN files[path] \subseteq {"step"}
       THEN /\ state' = TrainState_init(GetStep(files[path], Raw(0)))
            /\ ret' = Ret("restore_from_checkpoint", "ok", 0, FALSE, path)
            /\ UNCHANGED <<model, optimizer>>
     ELSE /\ ret' = Ret("restore_from_checkpoint", "TypeError", 0, FALSE, path)
          /\ UNCHANGED <<state, model, optimizer>>
  /\ UNCHANGED <<files, Others>>

\* state.update_from_checkpoint(checkpoint), with a dictionary read from a file.
UpdateFromCheckpoint(path) ==
  /\ state # NoState
  /\ path \in DOMAIN files
  /\ LET out == update_from_checkpoint(state, files[path], model, optimizer)
     IN /\ state' = out.self
        /\ model' = out.model
        /\ optimizer' = out.optimizer
        /\ ret' = Ret("update_from_checkpoint", out.status, 0, FALSE, path)
  /\ UNCHANGED <<files, Others>>

\* state = cls.restore_from_checkpoint(ckpt_path, model, optimizer) for the
\* rich classes.
BasicRestoreFromCheckpoint(cls, path) ==
  /\ IF path \notin DOMAIN files
       THEN /\ ret' = Ret("Basic.restore_from_checkpoint", "FileNotFoundError", 0,
                          FALSE, path)
            /\ UNCHANGED <<state, model, optimizer>>
       ELSE LET out == Basic_restore(cls, files[path], model, optimizer)
            IN /\ state' = IF out.status = "ok" THEN out.self ELSE state
               /\ model' = out.model
               /\ optimizer' = out.optimizer
               /\ ret' = Ret("Basic.restore_from_checkpoint", out.status, 0,
                             FALSE, path)
  /\ UNCHANGED <<files, Others>>

\* BasicTrainState.replace / DenoisingModelTrainState.replace: plain
\* assignments of the arguments (ema only for the denoising state).
replace(self, step, params, opt_state, ema) ==
  [self EXCEPT !.step = step, !.params = params, !.params_shared = FALSE,
               !.opt_state = opt_state,
               !.ema = IF self.cls = "DenoisingModelTrainState" THEN ema ELSE @]

Replace(step, params, opt_state, ema) ==
  /\ Rich(state)
  /\ state' = replace(state, step, params, opt_state, ema)
  /\ ret' = Ret("replace", "ok", 0, FALSE, 0)
  /\ UNCHANGED <<model, optimizer, files, Others>>

\* state.int_step
IntStep ==
  /\ state # NoState
  /\ ret' = Ret("int_step", int_step(state).status, int_step(state).val, FALSE, 0)
  /\ UNCHANGED <<state, model, optimizer, files, Others>>

\* state.ema_parameters
EmaParameters ==
  /\ state.cls = "DenoisingModelTrainState"
  /\ ret' = Ret("ema_parameters", ema_parameters(state).status,
                ema_parameters(state).val, FALSE, 0)
  /\ UNCHANGED <<state, model, optimizer, files, Others>>

\* state.ema_model = None, by the owner of the state: the case the guard of
\* ema_parameters is written for.
SetEmaModelNone ==
  /\ state.cls = "DenoisingModelTrainState"
  /\ state' = [state EXCEPT !.ema_model = None]
  /\ ret' = Ret("ema_model=None", "ok", 0, FALSE, 0)
  /\ UNCHANGED <<model, optimizer, files, Others>>

RichClasses == {"BasicTrainState", "DenoisingModelTrainState"}

Next ==
  \/ \E step \in StepInputs : NewTrainState(step)
  \/ \E cls \in RichClasses, params \in Dicts \cup {None},
        opt_state \in Dicts \cup {None}, step \in StepInputs :
       NewRichTrainState(cls, params, opt_state, step)
  \/ \E path \in Paths : SaveCheckpoint(path)
  \/ \E path \in Paths, with_ref \in BOOLEAN : RestoreFromCheckpoint(path, with_ref)
  \/ \E path \in Paths : UpdateFromCheckpoint(path)
  \/ \E cls \in RichClasses, path \in Paths : BasicRestoreFromCheckpoint(cls, path)
  \/ \E step \in StepInputs, params \in Dicts, opt_state \in Dicts, ema \in Dicts :
       Replace(step, params, opt_state, ema)
  \/ IntStep
  \/ EmaParameters
  \/ SetEmaModelNone

Spec == Init /\ [][Next]_vars

\* A run that builds its states from the base class alone.
NextTrain ==
  \/ \E step \in StepInputs : NewTrainState(step)
  \/ \E path \in Paths : SaveCheckpoint(path)
  \/ \E path \in Paths, with_ref \in BOOLEAN : RestoreFromCheckpoint(path, with_ref)
  \/ \E path \in Paths : UpdateFromCheckpoint(path)
  \/ IntStep

SpecTrain == Init /\ [][NextTrain]_vars


\* =========================================================================
\* utils/train_utils.py: is_scalar and opt_chain
\* =========================================================================
\* A value handed to is_scalar: its Python type and, for arrays and tensors,
\* its shape (the empty shape for everything else).
Shapes == UNION {[1..n -> 0..MaxDim] : n \in 0..MaxNdim}
PyScalarTypes == {"int", "float", "bool", "np.number"}
ArrayTypes == {"np.ndarray", "torch.Tensor"}
OtherTypes == {"str", "NoneType", "list"}
Values ==
  {[type |-> t, shape |-> <<>>] : t \in PyScalarTypes \cup OtherTypes}
    \cup {[type |-> t, shape |-> sh] : t \in ArrayTypes, sh \in Shapes}

ndim(value) == Len(value.shape)

RECURSIVE Prod(_)
Prod(shape) == IF shape = <<>> THEN 1 ELSE Head(shape) * Prod(Tail(shape))

\* The number of elements, what torch.Tensor.numel() returns.
numel(value) == Prod(value.shape)

\* is_scalar(value). bool is a subclass of int; numpy arrays have no numel
\* method (they have size), so the second disjunct raises on them.
is_scalar(value) ==
  IF value.type \in PyScalarTypes
    THEN [status |-> "ok", val |-> TRUE]
  ELSE IF value.type \in ArrayTypes
    THEN IF ndim(value) = 0
           THEN [status |-> "ok", val |-> TRUE]
         ELSE IF value.type = "np.ndarray"
           THEN [status |-> "AttributeError", val |-> FALSE]
         ELSE [status |-> "ok", val |-> numel(value) <= 1]
  ELSE [status |-> "ok", val |-> FALSE]

Optimizers == 1..NumOptimizers
Transformations == UNION {[1..n -> Optimizers] : n \in 0..MaxLen}

\* opt_chain taking the first element of any non-empty sequence.
opt_chain_first(transformations) ==
  IF Len(transformations) >= 1
    THEN [status |-> "ok", val |-> transformations[1]]
    ELSE [status |-> "NotImplementedError", val |-> 0]

\* opt_chain(transformations)
opt_chain(transformations) ==
  IF Len(transformations) = 1
    THEN [status |-> "ok", val |-> transformations[1]]
    ELSE [status |-> "NotImplementedError", val |-> 0]

InitUtils ==
  /\ state = NoState
  /\ model = 1
  /\ optimizer = 1
  /\ files = [path \in {} |-> 0]
  /\ ret = Ret("none", "ok", 0, FALSE, 0)
  /\ call = NoCall
  /\ runs = <<>>
  /\ lastcall = NoLastCall

CallIsScalar(value) ==
  /\ call' = [op |-> "is_scalar", arg |-> value,
              status |-> is_scalar(value).status, val |-> is_scalar(value).val]
  /\ UNCHANGED <<state, model, optimizer, files, ret, runs, lastcall>>

CallOptChain(transformations) ==
  /\ call' = [op |-> "opt_chain", arg |-> transformations,
              status |-> opt_chain(transformations).status,
              val |-> opt_chain(transformations).val]
  /\ UNCHANGED <<state, model, optimizer, files, ret, runs, lastcall>>

NextUtils ==
  \/ \E value \in Values : CallIsScalar(value)
  \/ \E transformations \in Transformations : CallOptChain(transformations)

SpecUtils == InitUtils /\ [][NextUtils]_vars

\* =========================================================================
\* utils/train_utils.py: primary_process_only
\* =========================================================================
Procs == 1..NumProcs

\* torch.distributed.get_rank() in process p: ranks are 0..world_size-1.
get_rank(p) == p - 1

\* The decorated class's own attributes (cls.__dict__): a constructor, a plain
\* method and a property.
ClsDict == {"__init__", "write", "path"}
callable(attr) == attr \in {"__init__", "write"}
startswith_dunder(attr) == attr \in {"__init__"}

\* The attributes primary_process_only replaces by wrap_method's wrapper.
wrapped(attr) == attr \in ClsDict /\ callable(attr) /\ ~startswith_dunder(attr)

\* A wrapper that runs the method whatever the rank.
wrapper_any_rank(rank) == [ran |-> TRUE, ret |-> "result"]

\* wrapper(self, ...): whether the method body runs, and what is returned.
wrapper(rank) ==
  IF rank = 0
    THEN [ran |-> TRUE, ret |-> "result"]
    ELSE [ran |-> FALSE, ret |-> "None"]

InitRank ==
  /\ state = NoState
  /\ model = 1
  /\ optimizer = 1
  /\ files = [path \in {} |-> 0]
  /\ ret = Ret("none", "ok", 0, FALSE, 0)
  /\ call = NoCall
  /\ runs = [p \in Procs |-> [attr \in ClsDict |-> 0]]
  /\ lastcall = NoLastCall

\* Process p uses attribute attr of an instance of the decorated class (calls
\* the method, reads the property).
Call(p, attr) ==
  LET out == IF wrapped(attr) THEN wrapper(get_rank(p))
             ELSE [ran |-> TRUE, ret |-> "result"]
  IN /\ out.ran => runs[p][attr] < MaxCalls
     /\ runs' = IF out.ran THEN [runs EXCEPT ![p][attr] = @ + 1] ELSE runs
     /\ lastcall' = [proc |-> p, method |-> attr, ret |-> out.ret]
     /\ UNCHANGED <<state, model, optimizer, files, ret, call>>

NextRank == \E p \in Procs, attr \in ClsDict : Call(p, attr)

SpecRank == InitRank /\ [][NextRank]_vars


\* =========================================================================
\* Properties
\* =========================================================================
LastCheckpoint == files[ret.path]
RestoredOk == ret.op = "restore_from_checkpoint" /\ ret.status = "ok"
BasicRestoredOk == ret.op = "Basic.restore_from_checkpoint" /\ ret.status = "ok"
SavedOk == ret.op = "save_checkpoint" /\ ret.status = "ok"

\* C1: saving a train state and restoring it (with or without a ref_state)
\* round-trips the step: the file written by save_checkpoint holds the state's
\* step, and the state a restore yields has exactly the file's step as int_step.
C1_StepRoundTrip ==
  /\ SavedOk =>
       /\ ret.path \in DOMAIN files
       /\ "step" \in DOMAIN LastCheckpoint
       /\ int_step(state) = [status |-> "ok", val |-> LastCheckpoint["step"]]
  /\ RestoredOk /\ "step" \in DOMAIN LastCheckpoint =>
       int_step(state) = [status |-> "ok", val |-> LastCheckpoint["step"]]

\* A TrainState restored, into a ref_state, from a file a TrainState saved at
\* the largest step.
C1_Witness ==
  /\ RestoredOk /\ ret.is_ref
  /\ state.cls = "TrainState"
  /\ DOMAIN LastCheckpoint = {"step"}
  /\ LastCheckpoint["step"] = MaxStep
  /\ state.step = Tensor(MaxStep)

\* C2: restoring into a ref_state returns that very object, and afterwards
\* every field of it (step; for the rich containers params and opt_state, and
\* the model and optimizer they mirror) holds the checkpoint's values.
C2_RefStateHoldsCheckpoint ==
  RestoredOk /\ ret.is_ref =>
    /\ "step" \in DOMAIN LastCheckpoint => state.step = Tensor(LastCheckpoint["step"])
    /\ Rich(state) =>
         /\ model = LastCheckpoint["params"]
         /\ optimizer = LastCheckpoint["opt_state"]
         /\ params_of(state, model) = LastCheckpoint["params"]
         /\ state.opt_state = LastCheckpoint["opt_state"]

\* A checkpoint load into the state at hand: restore_from_checkpoint with a
\* ref_state, or update_from_checkpoint.
IsLoad ==
  /\ ret'.status = "ok"
  /\ ret'.is_ref \/ ret'.op = "update_from_checkpoint"

\* C3 as stated: the step after each checkpoint load is greater than or equal
\* to the step before it.
C3_StepNeverDecreases ==
  [][IsLoad => state'.step.val >= state.step.val]_vars

\* C3 as amended: a checkpoint load sets the step to the checkpoint's step, and
\* leaves its value as it is when the checkpoint has no step; so the step after
\* the load is greater than or equal to the step before it whenever the
\* checkpoint's step is.
C3_LoadSetsStep ==
  [][IsLoad =>
       LET checkpoint == files[ret'.path]
           before == state.step.val
       IN /\ state'.step =
               Tensor(IF "step" \in DOMAIN checkpoint THEN checkpoint["step"]
                      ELSE before)
          /\ ("step" \in DOMAIN checkpoint => checkpoint["step"] >= before)
               => state'.step.val >= before]_vars

\* update_from_checkpoint has loaded a checkpoint saved at step 0 into a
\* state, whose step is now 0.
C3_Witness ==
  /\ ret.op = "update_from_checkpoint" /\ ret.status = "ok"
  /\ "step" \in DOMAIN LastCheckpoint
  /\ LastCheckpoint["step"] = 0
  /\ state.step = Tensor(0)

\* C4: opt_chain returns the element of a one-element sequence, and raises
\* NotImplementedError for a sequence of any other length.
C4_OptChain ==
  call.op = "opt_chain" =>
    IF Len(call.arg) = 1
      THEN call.status = "ok" /\ call.val = call.arg[1]
      ELSE call.status = "NotImplementedError"

\* opt_chain has returned the element of a one-element sequence.
C4_Witness ==
  /\ call.op = "opt_chain"
  /\ call.arg = <<NumOptimizers>>
  /\ call.status = "ok"
  /\ call.val = NumOptimizers

\* C5: is_scalar returns True for every 0-dimensional and every one-element
\* numeric value (int, float, numpy number, numpy array, torch tensor) and False
\* for every array or tensor of more than one element.
C5_IsScalarClassifies ==
  call.op = "is_scalar" =>
    LET value == call.arg
    IN /\ /\ value.type \in PyScalarTypes \cup ArrayTypes
          /\ ndim(value) = 0 \/ numel(value) = 1
          => call.status = "ok" /\ call.val
       /\ value.type \in ArrayTypes /\ numel(value) > 1
          => call.status = "ok" /\ ~call.val

\* C6: ema_parameters raises ValueError when the EMA model is None and returns
\* the EMA model's parameters otherwise, and changes nothing either way.
C6_EmaParameters ==
  [][ret'.op = "ema_parameters" =>
       /\ UNCHANGED <<state, model, optimizer, files>>
       /\ IF state.ema_model = None
            THEN ret'.status = "ValueError"
            ELSE ret'.status = "ok" /\ ret'.val = state.ema_model]_vars

\* ema_parameters has raised on a denoising state without an EMA model.
C6_Witness ==
  /\ ret.op = "ema_parameters"
  /\ ret.status = "ValueError"
  /\ state.cls = "DenoisingModelTrainState"
  /\ state.ema_model = None

\* A non-dunder method of the decorated class.
NonDunderMethod(attr) == callable(attr) /\ ~startswith_dunder(attr)

C8_BasicRoundTrip ==
  /\ SavedOk /\ Rich(state) =>
       LastCheckpoint = ("step" :> state.step.val) @@ ("params" :> model)
                          @@ ("opt_state" :> optimizer)
  /\ BasicRestoredOk =>
       /\ model = LastCheckpoint["params"]
       /\ optimizer = LastCheckpoint["opt_state"]
       /\ params_of(state, model) = LastCheckpoint["params"]
       /\ state.opt_state = LastCheckpoint["opt_state"]
       /\ state.step = Tensor(IF "step" \in DOMAIN LastCheckpoint
                                THEN LastCheckpoint["step"] ELSE 0)

\* A BasicTrainState restored from a file saved at the largest step.
C8_Witness ==
  /\ BasicRestoredOk
  /\ state.cls = "BasicTrainState"
  /\ "step" \in DOMAIN LastCheckpoint
  /\ LastCheckpoint["step"] = MaxStep
  /\ LastCheckpoint["params"] # LastCheckpoint["opt_state"]
  /\ state.step = Tensor(MaxStep)

\* C9: whatever was called, a train state's step is a tensor, so int_step and
\* state_dict are defined on it.
C9_StepIsTensor ==
  state # NoState =>
    /\ state.step.tensor
    /\ int_step(state).status = "ok"
    /\ state_dict(state, model, optimizer).status = "ok"

\* C10: a denoising state's checkpoint has no EMA entry, and a denoising state
\* built by restore_from_checkpoint has an EMA model copied from the model
\* after the checkpoint was loaded: ema is the restored parameters.
C10_EmaRebuilt ==
  /\ SavedOk /\ state.cls = "DenoisingModelTrainState" =>
       DOMAIN LastCheckpoint = {"step", "params", "opt_state"}
  /\ BasicRestoredOk /\ state.cls = "DenoisingModelTrainState" =>
       /\ state.ema_model = LastCheckpoint["params"]
       /\ state.ema = LastCheckpoint["params"]
       /\ state.ema = params_of(state, model)
       /\ ema_parameters(state) = [status |-> "ok", val |-> model]

\* A denoising state restored from a file a state saved.
C10_Witness ==
  /\ BasicRestoredOk
  /\ state.cls = "DenoisingModelTrainState"
  /\ "step" \in DOMAIN LastCheckpoint
  /\ state.ema = LastCheckpoint["params"]
  /\ state.ema = NumDicts

====
